---- MODULE Spec2Model ----
(***************************************************************************)
(* Model of the low-side / high-side reconciliation core of syft's sync    *)
(* service: NodeDiff.hierarchies (batch construction over the dependency   *)
(* map) and ResolvedSyncState.add_cruds_from_diff (resolution), from       *)
(* service/sync/diff_state.py and service/sync/resolve_widget.py.          *)
(***************************************************************************)
EXTENDS Integers, Sequences, FiniteSets, TLC

\* ------------------------------------------------------------------ bounds

\* Number of object identities of the dependency-map specification.
NumIds == 4
\* Largest number of dependency edges of the dependency-map specification.
MaxEdges == 4

\* Identities and edges of the specification that runs _build_hierarchy_helper
\* call by call.
HelperIds == 3
HelperEdges == 3
\* Identities and edges of the specification that diffs two snapshots.
DiffIds == 3
DiffEdges == 2
\* Largest number of diffs in the batch that is resolved.
MaxBatchLen == 3
\* Number of object identities the two snapshots can hold.
SyncIds == 2
\* Largest number of batches handed to _sort_hierarchies.
MaxBatches == 3
\* Largest length of a list handed to ListDiff.from_lists.
MaxListLen == 3
\* Cap on the depth of the call stack of _build_hierarchy_helper.
MaxDepth == 6

UIDs == 1..NumIds

\* --------------------------------------------------------------- variables

VARIABLES
    \* NodeDiff.obj_uid_to_diff: uid -> ObjectDiff
    obj_uid_to_diff,
    \* NodeDiff.dependencies: parent uid -> list of child uids
    dependencies,
    \* "input" while the dependency map is being assembled, "done" once
    \* NodeDiff.hierarchies has been evaluated
    phase,
    \* the value returned by NodeDiff.hierarchies
    hierarchies,
    \* the roots "for root_uid in root_ids" has not reached yet
    roots_left,
    \* the call stack of _build_hierarchy_helper: one frame per active call,
    \* with its uid, level, visited set and position i in the loop over deps
    stack,
    \* the (uid, level) pairs the calls for the current root have produced
    uid_hierarchy,
    \* ObjectDiffBatch.diffs of the batch that is resolved
    batch_diff,
    \* the decision handed to add_cruds_from_diff ("low" or "high")
    decision,
    \* ObjectDiffBatch.decision ("none" for None, else low, high, skip, ignore)
    batch_decision,
    \* where the resolution stands: idle, pass1, pass2, resolved, clicked
    rpc,
    \* number of diffs of the batch the current pass has applied
    pos,
    \* the two ResolvedSyncState objects
    resolved_state_low,
    resolved_state_high,
    \* the state handed to client.apply_state: "none", "low" or "high"
    applied,
    \* the two SyncState snapshots: their objects and dependencies maps
    low_state,
    high_state,
    \* where the comparison of the snapshots stands: snapshots, called,
    \* diffed, batched
    sync_pc,
    \* the exception the last call raised, "none" if it returned
    sync_error,
    \* what a direct call of ObjectDiff.from_objects produced: <<>> or <<diff>>
    made,
    \* what _sort_hierarchies returned, <<>> before the call and on an error
    sorted_hierarchies,
    \* the exception _sort_hierarchies raised, "none" if it returned
    sort_error,
    \* the two lists handed to ListDiff.from_lists and the ListDiff it returned
    low_list,
    high_list,
    change_diff,
    \* "input" before the call of from_lists, "done" after it
    list_pc,
    \* where the message handler stands
    q_pc,
    \* what call_method did: returned Ok, Ok with failed action data, an
    \* error result, a value of another type, or raised
    q_outcome,
    \* the handler's QueueItem object, which the MonitorThread shares
    queue_item,
    \* the QueueItem and the Job as the stashes hold them
    stash_queue_item,
    stash_job,
    \* where the MonitorThread stands, and its stop_requested event
    monitor_pc,
    stop_requested

hvars == <<obj_uid_to_diff, dependencies, phase, hierarchies>>
svars == <<roots_left, stack, uid_hierarchy>>
rvars == <<batch_diff, decision, batch_decision, rpc, pos, resolved_state_low,
           resolved_state_high, applied>>
yvars == <<low_state, high_state, sync_pc, sync_error, made>>
ovars == <<sorted_hierarchies, sort_error>>
lvars == <<low_list, high_list, change_diff, list_pc>>
qvars == <<q_pc, q_outcome, queue_item, stash_queue_item, stash_job, monitor_pc,
           stop_requested>>
evars == <<lvars, qvars>>
vars == <<hvars, svars, rvars, yvars, ovars, evars>>
\* what the actions on a NodeDiff leave alone
nonhvars == <<rvars, yvars, ovars, evars>>
\* what the actions of a resolution leave alone
nonrvars == <<hvars, svars, yvars, ovars, evars>>

\* ----------------------------------------------------------------- helpers

Range(s) == {s[i] : i \in 1..Len(s)}

\* the empty dict
EmptyMap == [x \in {} |-> <<>>]

\* dict.get(uid, [])
GetDeps(deps, uid) == IF uid \in DOMAIN deps THEN deps[uid] ELSE <<>>

\* number of (parent, child) entries of a dependency map
RECURSIVE SumLen(_, _)
SumLen(deps, keys) ==
    IF keys = {} THEN 0
    ELSE LET k == CHOOSE x \in keys : TRUE
         IN Len(deps[k]) + SumLen(deps, keys \ {k})

NumEdges(deps) == SumLen(deps, DOMAIN deps)

\* a set of uids as a list in ascending order
RECURSIVE SortedSeq(_)
SortedSeq(S) ==
    IF S = {} THEN <<>>
    ELSE LET m == CHOOSE x \in S : \A y \in S : x <= y
         IN <<m>> \o SortedSeq(S \ {m})

\* number of positions of s that hold x
Count(s, x) == Cardinality({i \in 1..Len(s) : s[i] = x})

\* the sub-list of s whose elements are in S, order kept
RECURSIVE FilterSeq(_, _)
FilterSeq(s, S) ==
    IF s = <<>> THEN <<>>
    ELSE (IF Head(s) \in S THEN <<Head(s)>> ELSE <<>>) \o FilterSeq(Tail(s), S)

\* --------------------------------------------------------------- ObjectDiff

\* Optional[SyftObject] = None
NoObj == [id |-> 0, attr |-> 0]

\* a SyftObject: its identity and its compared contents
Obj(uid, attr) == [id |-> uid, attr |-> attr]

\* SyftObject.get_diffs: the list of AttrDiff of the attributes that differ
get_diffs(low_obj, high_obj) ==
    IF low_obj.attr = high_obj.attr THEN <<>>
    ELSE <<[attr_name |-> "attr", low_attr |-> low_obj.attr,
            high_attr |-> high_obj.attr]>>

\* raise ValueError("Both low and high objects are None")
ValueError == [error |-> "ValueError"]

\* the bug of a missing test: a diff is built from nothing
NeverBothNone(low_obj, high_obj) == FALSE

\* "if low_obj is None and high_obj is None"
BothNone(low_obj, high_obj) == low_obj = NoObj /\ high_obj = NoObj

\* ObjectDiff.from_objects: the diff, or ValueError when both objects are None
from_objects(low_obj, high_obj, low_permissions, high_permissions) ==
    IF BothNone(low_obj, high_obj) THEN ValueError ELSE
    [low_obj |-> low_obj,
     high_obj |-> high_obj,
     low_permissions |-> low_permissions,
     high_permissions |-> high_permissions,
     diff_list |-> IF low_obj = NoObj \/ high_obj = NoObj THEN <<>>
                   ELSE get_diffs(low_obj, high_obj)]

\* the bug of a status that looks at diff_list only
StatusOfDiffList(diff) == IF Len(diff.diff_list) = 0 THEN "SAME" ELSE "DIFF"

\* ObjectDiff.status
status(diff) ==
    IF diff.low_obj = NoObj \/ diff.high_obj = NoObj THEN "NEW"
    ELSE IF Len(diff.diff_list) = 0 THEN "SAME"
    ELSE "DIFF"

\* ObjectDiff.object_id
object_id(diff) ==
    IF diff.low_obj # NoObj THEN diff.low_obj.id ELSE diff.high_obj.id

\* ------------------------------------------------- NodeDiff.hierarchies

\* _build_hierarchy_helper(uid, level, visited): the depth-first list of
\* (uid, level) pairs below uid. Every recursive call receives a fresh set
\* visited | (set(deps) - {dep_uid}); the caller's own set only gains uid.
\* the bug of calling the helper without its visited argument (visited=None)
ChildVisitedDefault(visited, children, dep_uid) == {}

\* the bug of a call that is not told about the siblings
ChildVisitedNoSiblings(visited, children, dep_uid) == visited

\* visited | set(deps) - {dep_uid}: the set handed to the call for dep_uid
ChildVisited(visited, children, dep_uid) ==
    visited \cup (Range(children) \ {dep_uid})

\* the bug of a level that does not grow with the depth
SameLevel(level) == level

\* "level=level + 1": the level handed to the call for a dependency
ChildLevel(level) == level + 1

RECURSIVE build_hierarchy_helper(_, _, _, _), expand_deps(_, _, _, _, _)
build_hierarchy_helper(deps, uid, level, visited) ==
    IF uid \in visited THEN <<>>
    ELSE <<[uid |-> uid, level |-> level]>>
         \o (IF uid \in DOMAIN deps
             THEN expand_deps(deps, deps[uid], 1, level, visited \cup {uid})
             ELSE <<>>)

\* the loop "for dep_uid in self.dependencies[uid]" from position i on
expand_deps(deps, children, i, level, visited) ==
    IF i > Len(children) THEN <<>>
    ELSE (IF children[i] \notin visited
          THEN build_hierarchy_helper(deps, children[i], ChildLevel(level),
                   ChildVisited(visited, children, children[i]))
          ELSE <<>>)
         \o expand_deps(deps, children, i + 1, level, visited)

\* {child for deps in self.dependencies.values() for child in deps}
ChildIds(deps) == UNION {Range(deps[p]) : p \in DOMAIN deps}

\* the bug of taking every object for a root
AllIdsAsRoots(all_ids, deps) == SortedSeq(all_ids)

\* root_ids = list(all_ids - child_ids). The list follows the iteration order
\* of a set of UIDs; uids are arbitrary labels here, so listing them in
\* ascending order covers every order up to renaming.
RootIds(all_ids, deps) == SortedSeq(all_ids \ ChildIds(deps))

\* the bug of taking the dependencies map for its inverse
DependentsAsGiven(batch_deps) == batch_deps

\* ObjectDiffBatch.make_dependents: the inverse of the batch's dependencies,
\* parents listed in the iteration order of the dependencies dict
make_dependents(batch_deps) ==
    LET children == ChildIds(batch_deps)
        parents(c) == {p \in DOMAIN batch_deps : c \in Range(batch_deps[p])}
    IN [c \in children |-> SortedSeq(parents(c))]

\* the bug of a batch without edges
BatchDepsNone(deps, batch_uids) == [uid \in batch_uids |-> <<>>]

\* the bug of handing every batch the global map
BatchDepsGlobal(deps, batch_uids) == deps

\* the batch's dependencies: "{uid: [d for d in self.dependencies.get(uid, [])
\* if d in batch_uids] for uid in batch_uids}"
BatchDeps(deps, batch_uids) ==
    [uid \in batch_uids |-> FilterSeq(GetDeps(deps, uid), batch_uids)]

\* the body of "for root_uid in root_ids": one ObjectDiffBatch
BatchOf(uid_to_diff, deps, pairs) ==
    LET batch_uids == {pairs[i].uid : i \in 1..Len(pairs)}
        batch_deps == BatchDeps(deps, batch_uids)
    IN [diffs |-> [i \in 1..Len(pairs) |-> uid_to_diff[pairs[i].uid]],
        hierarchy_levels |-> [i \in 1..Len(pairs) |-> pairs[i].level],
        dependencies |-> batch_deps,
        dependents |-> make_dependents(batch_deps)]

MakeBatch(uid_to_diff, deps, root_uid) ==
    BatchOf(uid_to_diff, deps, build_hierarchy_helper(deps, root_uid, 0, {}))

\* NodeDiff.hierarchies
Hierarchies(uid_to_diff, deps) ==
    LET root_ids == RootIds(DOMAIN uid_to_diff, deps)
    IN [i \in 1..Len(root_ids) |-> MakeBatch(uid_to_diff, deps, root_ids[i])]

\* the object ids of a batch's diffs, in order
BatchIds(batch) == [i \in 1..Len(batch.diffs) |-> object_id(batch.diffs[i])]

\* [diff for hierarchy in self.hierarchies for diff in hierarchy.diffs]
RECURSIVE DiffsDepthFirst(_)
DiffsDepthFirst(batches) ==
    IF batches = <<>> THEN <<>>
    ELSE Head(batches).diffs \o DiffsDepthFirst(Tail(batches))

\* the loop of NodeDiff.diffs marked "deduplicate": the first diff of
\* every object id is kept
RECURSIVE Deduplicate(_, _)
Deduplicate(ds, ids) ==
    IF ds = <<>> THEN <<>>
    ELSE IF object_id(Head(ds)) \in ids THEN Deduplicate(Tail(ds), ids)
    ELSE <<Head(ds)>> \o Deduplicate(Tail(ds), ids \cup {object_id(Head(ds))})

\* NodeDiff.diffs without its deduplication
DiffsNoDedup(batches) == DiffsDepthFirst(batches)

\* NodeDiff.diffs
Diffs(batches) == Deduplicate(DiffsDepthFirst(batches), {})

\* ObjectDiff.get_obj: the object of a NEW diff, ValueError for another status
get_obj(diff) ==
    IF status(diff) = "NEW"
    THEN (IF diff.low_obj # NoObj THEN diff.low_obj ELSE diff.high_obj)
    ELSE ValueError

\* the bug of a missing status test
IsAnyStatus(diff) == TRUE

\* "if diff.status == "NEW""
IsNew(diff) == status(diff) = "NEW"

\* the loop of NodeDiff.objs_to_sync over the diffs ds
RECURSIVE NewObjs(_)
NewObjs(ds) ==
    IF ds = <<>> THEN <<>>
    ELSE (IF IsNew(Head(ds)) THEN <<get_obj(Head(ds))>> ELSE <<>>)
         \o NewObjs(Tail(ds))

\* NodeDiff.objs_to_sync
objs_to_sync(batches) == NewObjs(Diffs(batches))

\* the uids reachable from uid along dependency edges, uid included
RECURSIVE ReachFrom(_, _)
ReachFrom(deps, seen) ==
    LET more == seen \cup UNION {Range(GetDeps(deps, u)) : u \in seen}
    IN IF more = seen THEN seen ELSE ReachFrom(deps, more)

Reach(deps, uid) == ReachFrom(deps, {uid})

\* -------------------------------------------------------- ResolvedSyncState

\* ResolvedSyncState(alias=...): every list empty
NewResolvedSyncState(alias) ==
    [alias |-> alias,
     create_objs |-> <<>>,
     update_objs |-> <<>>,
     delete_objs |-> <<>>,
     new_permissions |-> <<>>,
     ignored_batches |-> <<>>]

\* the bug of appending without the "not in" test
AppendAlways(objs, obj) == Append(objs, obj)

\* "if obj not in objs: objs.append(obj)"
AppendIfAbsent(objs, obj) ==
    IF obj \in Range(objs) THEN objs ELSE Append(objs, obj)

\* the bug of reading the low object whatever the alias
MyObjLow(alias, diff) == diff.low_obj

\* my_obj = diff.low_obj if self.alias == "low" else diff.high_obj
MyObj(alias, diff) == IF alias = "low" THEN diff.low_obj ELSE diff.high_obj

\* the bug of taking the state's own object as the other side's
OtherObjOwn(alias, diff) == IF alias = "low" THEN diff.low_obj ELSE diff.high_obj

\* other_obj = diff.low_obj if self.alias == "high" else diff.high_obj
OtherObj(alias, diff) == IF alias = "high" THEN diff.low_obj ELSE diff.high_obj

\* the bug of the inverted test: the chosen side is changed
ChoseForMe(alias, dec) == dec = alias

\* the bug of a missing test of the decision: both states are written
ChoseAlways(alias, dec) == TRUE

\* "if decision != self.alias:  # chose for the other"
ChoseForOther(alias, dec) == dec # alias

\* ResolvedSyncState.add_cruds_from_diff
add_cruds_from_diff(self, diff, dec) ==
    IF status(diff) = "SAME" THEN self
    ELSE IF ~ChoseForOther(self.alias, dec) THEN self
    ELSE IF status(diff) = "DIFF"
         THEN [self EXCEPT !.update_objs =
                  AppendIfAbsent(@, OtherObj(self.alias, diff))]
    ELSE IF MyObj(self.alias, diff) = NoObj
         THEN [self EXCEPT !.create_objs =
                  AppendIfAbsent(@, OtherObj(self.alias, diff))]
    ELSE IF OtherObj(self.alias, diff) = NoObj
         THEN [self EXCEPT !.delete_objs =
                  AppendIfAbsent(@, MyObj(self.alias, diff))]
    ELSE self

\* add_cruds_from_diff for the diffs ds in order
RECURSIVE AddAll(_, _, _)
AddAll(self, ds, dec) ==
    IF ds = <<>> THEN self
    ELSE AddAll(add_cruds_from_diff(self, Head(ds), dec), Tail(ds), dec)

\* the diff with its low and high sides exchanged
Mirror(diff) ==
    from_objects(diff.high_obj, diff.low_obj,
                 diff.high_permissions, diff.low_permissions)

\* the create, update and delete lists of a state
Cruds(self) == <<self.create_objs, self.update_objs, self.delete_objs>>

\* ------------------------------------------ ResolveWidget.button_callback

\* ResolvedSyncState.add_sync_instruction: the create, update and delete
\* entries of the instruction's diff under the instruction's decision
add_sync_instruction(self, instruction) ==
    add_cruds_from_diff(self, instruction.diff, instruction.decision)

\* ResolvedSyncState.add_ignored: the batch is recorded as ignored
add_ignored(self, batch) ==
    [self EXCEPT !.ignored_batches = Append(@, object_id(batch[1]))]

\* ObjectDiffBatch.is_unchanged: no diff of the batch has a change
is_unchanged(batch) ==
    \A i \in 1..Len(batch) : status(batch[i]) = "SAME"

\* ObjectDiffBatch.get_dependents(include_roots=True): the diffs of the batch
get_dependents(batch) == batch

\* the bug of going on with an unchanged batch
NeverReturnsEarly(batch) == FALSE

\* "if batch_diff.is_unchanged: ... return"
ReturnsEarly(batch) == is_unchanged(batch)

\* the bug of testing for skip only: an ignored batch is synced
IsSkipOnly(dec) == dec = "skip"

\* "batch_decision not in [SyncDecision.skip, SyncDecision.ignore]", negated
IsSkipOrIgnore(dec) == dec \in {"skip", "ignore"}

\* the list sync_instructions: one instruction per diff whose widget is
\* checked for sync or is the main widget, none for skip and ignore
RECURSIVE InstructionsOf(_, _, _, _)
InstructionsOf(ds, root_id, synced, dec) ==
    IF ds = <<>> THEN <<>>
    ELSE (IF object_id(Head(ds)) \in synced \/ object_id(Head(ds)) = root_id
          THEN <<[diff |-> Head(ds), decision |-> dec]>>
          ELSE <<>>)
         \o InstructionsOf(Tail(ds), root_id, synced, dec)

SyncInstructions(batch, synced, dec, batch_dec) ==
    IF ~IsSkipOrIgnore(batch_dec)
    THEN InstructionsOf(get_dependents(batch), object_id(batch[1]), synced, dec)
    ELSE <<>>

\* "for sync_instruction in sync_instructions: ...add_sync_instruction(...)"
RECURSIVE AddInstructions(_, _)
AddInstructions(self, instructions) ==
    IF instructions = <<>> THEN self
    ELSE AddInstructions(add_sync_instruction(self, Head(instructions)),
                         Tail(instructions))

\* the ResolvedSyncState of one alias when button_callback reaches apply_state
ClickedState(alias, batch, synced, dec, batch_dec) ==
    AddInstructions(
        IF batch_dec = "ignore"
        THEN add_ignored(NewResolvedSyncState(alias), batch)
        ELSE NewResolvedSyncState(alias),
        SyncInstructions(batch, synced, dec, batch_dec))

\* ------------------------------------------------------------ specification

\* no batch is being resolved
IdleResolve ==
    /\ batch_diff = <<>>
    /\ decision = "none"
    /\ batch_decision = "none"
    /\ rpc = "idle"
    /\ pos = 0
    /\ resolved_state_low = NewResolvedSyncState("low")
    /\ resolved_state_high = NewResolvedSyncState("high")
    /\ applied = "none"

\* a ListDiff without entries
EmptyListDiff == [diff_ids |-> <<>>, new_low_ids |-> <<>>, new_high_ids |-> <<>>]

\* no lists are being compared
IdleList ==
    /\ low_list = <<>>
    /\ high_list = <<>>
    /\ change_diff = EmptyListDiff
    /\ list_pc = "idle"

\* a QueueItem or Job as it is created
Unresolved == [status |-> "CREATED", resolved |-> FALSE]

\* no message is being handled
IdleQueue ==
    /\ q_pc = "idle"
    /\ q_outcome = "none"
    /\ queue_item = Unresolved
    /\ stash_queue_item = Unresolved
    /\ stash_job = Unresolved
    /\ monitor_pc = "none"
    /\ stop_requested = FALSE

IdleExtra == IdleList /\ IdleQueue

\* no list of batches is being ordered
IdleSort ==
    /\ sorted_hierarchies = <<>>
    /\ sort_error = "none"

\* no snapshots are being compared
IdleSync ==
    /\ low_state = [objects |-> EmptyMap, dependencies |-> EmptyMap]
    /\ high_state = [objects |-> EmptyMap, dependencies |-> EmptyMap]
    /\ sync_pc = "idle"
    /\ sync_error = "none"
    /\ made = <<>>

\* no NodeDiff is being batched
IdleHier ==
    /\ obj_uid_to_diff = EmptyMap
    /\ dependencies = EmptyMap
    /\ phase = "input"
    /\ hierarchies = <<>>
    /\ roots_left = <<>>
    /\ stack = <<>>
    /\ uid_hierarchy = <<>>

\* a NodeDiff over the objects 1..n, each present and equal on both sides
Init ==
    /\ \E n \in 1..NumIds :
           obj_uid_to_diff = [u \in 1..n |->
               from_objects(Obj(u, 1), Obj(u, 1), <<>>, <<>>)]
    /\ dependencies = EmptyMap
    /\ phase = "input"
    /\ hierarchies = <<>>
    /\ roots_left = <<>>
    /\ stack = <<>>
    /\ uid_hierarchy = <<>>
    /\ IdleResolve
    /\ IdleSync
    /\ IdleSort
    /\ IdleExtra

\* NodeDiff._init_dependencies: one more child in the list of one parent
\* (lists hold no uid twice: each is list(set(...)))
AddDependency(parent, child, limit) ==
    /\ phase = "input"
    /\ NumEdges(dependencies) < limit
    /\ child \notin Range(GetDeps(dependencies, parent))
    /\ dependencies' = [p \in DOMAIN dependencies \cup {parent} |->
                           IF p = parent
                           THEN Append(GetDeps(dependencies, parent), child)
                           ELSE dependencies[p]]
    /\ UNCHANGED <<obj_uid_to_diff, phase, hierarchies, svars, nonhvars>>

\* the property NodeDiff.hierarchies is read
GetHierarchies ==
    /\ phase = "input"
    /\ hierarchies' = Hierarchies(obj_uid_to_diff, dependencies)
    /\ phase' = "done"
    /\ UNCHANGED <<obj_uid_to_diff, dependencies, svars, nonhvars>>

Next ==
    \/ \E parent \in DOMAIN obj_uid_to_diff, child \in DOMAIN obj_uid_to_diff :
           AddDependency(parent, child, MaxEdges)
    \/ GetHierarchies

Spec == Init /\ [][Next]_vars

\* ------------------------------------------- NodeDiff from two snapshots

\* what the two snapshots hold for one uid, as (low contents, high contents)
\* with 0 for "not in that snapshot": only on the low side, only on the high
\* side, equal on both, different on both
Presences == {<<1, 0>>, <<0, 1>>, <<1, 1>>, <<1, 2>>}

SnapshotObj(uid, attr) == IF attr = 0 THEN NoObj ELSE Obj(uid, attr)

\* NodeDiff.from_sync_state over the objects 1..n, n <= DiffIds: one
\* ObjectDiff per uid of either snapshot
InitNodeDiff ==
    /\ \E n \in 1..DiffIds :
           \E pres \in [1..n -> Presences] :
               obj_uid_to_diff = [u \in 1..n |->
                   from_objects(SnapshotObj(u, pres[u][1]),
                                SnapshotObj(u, pres[u][2]), <<>>, <<>>)]
    /\ dependencies = EmptyMap
    /\ phase = "input"
    /\ hierarchies = <<>>
    /\ roots_left = <<>>
    /\ stack = <<>>
    /\ uid_hierarchy = <<>>
    /\ IdleResolve
    /\ IdleSync
    /\ IdleSort
    /\ IdleExtra

NextNodeDiff ==
    \/ \E parent \in DOMAIN obj_uid_to_diff, child \in DOMAIN obj_uid_to_diff :
           AddDependency(parent, child, DiffEdges)
    \/ GetHierarchies

SpecNodeDiff == InitNodeDiff /\ [][NextNodeDiff]_vars

\* ------------------------------- NodeDiff.hierarchies, one call at a time

\* a NodeDiff over the objects 1..n, n <= HelperIds
InitHelper ==
    /\ \E n \in 1..HelperIds :
           obj_uid_to_diff = [u \in 1..n |->
               from_objects(Obj(u, 1), Obj(u, 1), <<>>, <<>>)]
    /\ dependencies = EmptyMap
    /\ phase = "input"
    /\ hierarchies = <<>>
    /\ roots_left = <<>>
    /\ stack = <<>>
    /\ uid_hierarchy = <<>>
    /\ IdleResolve
    /\ IdleSync
    /\ IdleSort
    /\ IdleExtra

\* entry of _build_hierarchy_helper(uid, level, visited): nothing for a
\* visited uid, else (uid, level) is emitted, uid joins the call's own
\* visited set and the loop over its deps starts
EnterStack(stk, uid, level, visited) ==
    IF uid \in visited THEN stk
    ELSE Append(stk, [uid |-> uid, level |-> level,
                      visited |-> visited \cup {uid}, i |-> 1])

EnterResult(res, uid, level, visited) ==
    IF uid \in visited THEN res
    ELSE Append(res, [uid |-> uid, level |-> level])

\* hierarchies starts: root_ids is computed
StartHierarchies ==
    /\ phase = "input"
    /\ phase' = "running"
    /\ roots_left' = RootIds(DOMAIN obj_uid_to_diff, dependencies)
    /\ UNCHANGED <<obj_uid_to_diff, dependencies, hierarchies, stack,
                   uid_hierarchy, nonhvars>>

\* uid_hierarchy = _build_hierarchy_helper(root_uid): the outermost call
CallRoot ==
    /\ phase = "running"
    /\ stack = <<>>
    /\ uid_hierarchy = <<>>
    /\ roots_left # <<>>
    /\ stack' = EnterStack(stack, Head(roots_left), 0, {})
    /\ uid_hierarchy' = EnterResult(uid_hierarchy, Head(roots_left), 0, {})
    /\ UNCHANGED <<obj_uid_to_diff, dependencies, phase, hierarchies,
                   roots_left, nonhvars>>

Top == stack[Len(stack)]
TopDeps == GetDeps(dependencies, Top.uid)
Advanced == [stack EXCEPT ![Len(stack)].i = @ + 1]

\* "if dep_uid not in visited" fails: the loop moves to the next dep
SkipVisited ==
    /\ phase = "running"
    /\ stack # <<>>
    /\ Top.i <= Len(TopDeps)
    /\ TopDeps[Top.i] \in Top.visited
    /\ stack' = Advanced
    /\ UNCHANGED <<hvars, roots_left, uid_hierarchy, nonhvars>>

\* the recursive call for dep_uid = deps[i]
Recurse ==
    /\ phase = "running"
    /\ stack # <<>>
    /\ Top.i <= Len(TopDeps)
    /\ TopDeps[Top.i] \notin Top.visited
    /\ Len(stack) < MaxDepth
    /\ stack' = EnterStack(Advanced, TopDeps[Top.i], ChildLevel(Top.level),
                     ChildVisited(Top.visited, TopDeps, TopDeps[Top.i]))
    /\ uid_hierarchy' = EnterResult(uid_hierarchy, TopDeps[Top.i], ChildLevel(Top.level),
                     ChildVisited(Top.visited, TopDeps, TopDeps[Top.i]))
    /\ UNCHANGED <<hvars, roots_left, nonhvars>>

\* the loop is over: "return result"
Return ==
    /\ phase = "running"
    /\ stack # <<>>
    /\ Top.i > Len(TopDeps)
    /\ stack' = SubSeq(stack, 1, Len(stack) - 1)
    /\ UNCHANGED <<hvars, roots_left, uid_hierarchy, nonhvars>>

\* the outermost call has returned: the batch is built and appended
AppendBatch ==
    /\ phase = "running"
    /\ stack = <<>>
    /\ uid_hierarchy # <<>>
    /\ hierarchies' = Append(hierarchies,
                          BatchOf(obj_uid_to_diff, dependencies, uid_hierarchy))
    /\ roots_left' = Tail(roots_left)
    /\ uid_hierarchy' = <<>>
    /\ UNCHANGED <<obj_uid_to_diff, dependencies, phase, stack, nonhvars>>

\* "return hierarchies"
ReturnHierarchies ==
    /\ phase = "running"
    /\ stack = <<>>
    /\ uid_hierarchy = <<>>
    /\ roots_left = <<>>
    /\ phase' = "done"
    /\ UNCHANGED <<obj_uid_to_diff, dependencies, hierarchies, svars, nonhvars>>

NextHelper ==
    \/ \E parent \in DOMAIN obj_uid_to_diff, child \in DOMAIN obj_uid_to_diff :
           AddDependency(parent, child, HelperEdges)
    \/ StartHierarchies
    \/ CallRoot
    \/ SkipVisited
    \/ Recurse
    \/ Return
    \/ AppendBatch
    \/ ReturnHierarchies

\* the interpreter keeps executing a call that has a next step
SpecHelper == InitHelper /\ [][NextHelper]_vars /\ WF_vars(NextHelper)

\* ------------------------------------------------- resolution of a batch

\* one uid's ObjectDiff: the contents on the low and on the high side (0 for
\* absent) and whether the low side holds a permission the high side lacks
DiffKinds ==
    {[low |-> 1, high |-> 0, perm |-> FALSE], [low |-> 1, high |-> 0, perm |-> TRUE],
     [low |-> 0, high |-> 1, perm |-> FALSE],
     [low |-> 1, high |-> 1, perm |-> FALSE], [low |-> 1, high |-> 1, perm |-> TRUE],
     [low |-> 1, high |-> 2, perm |-> FALSE], [low |-> 1, high |-> 2, perm |-> TRUE]}

\* an ActionObjectPermission on uid
Permission(uid) == [uid |-> uid, permission |-> "READ"]

DiffOfKind(uid, kind) ==
    from_objects(SnapshotObj(uid, kind.low), SnapshotObj(uid, kind.high),
                 IF kind.perm THEN <<Permission(uid)>> ELSE <<>>, <<>>)

\* the uids of a batch's diffs, named in the order of their first occurrence
\* (a uid may occur twice in a batch)
IsShape(shape) ==
    \A i \in 1..Len(shape) :
        \A v \in 1..(shape[i] - 1) : \E j \in 1..(i - 1) : shape[j] = v

\* a batch of at most MaxBatchLen diffs and two empty ResolvedSyncStates
InitResolve ==
    /\ \E len \in 1..MaxBatchLen :
           \E shape \in [1..len -> 1..len] :
               /\ IsShape(shape)
               /\ \E kinds \in [Range(shape) -> DiffKinds] :
                      batch_diff = [i \in 1..len |->
                                       DiffOfKind(shape[i], kinds[shape[i]])]
    /\ decision = "none"
    /\ batch_decision = "none"
    /\ rpc = "idle"
    /\ pos = 0
    /\ resolved_state_low = NewResolvedSyncState("low")
    /\ resolved_state_high = NewResolvedSyncState("high")
    /\ applied = "none"
    /\ IdleHier
    /\ IdleSync
    /\ IdleSort
    /\ IdleExtra

\* a resolution with decision dec starts on two empty states
Resolve(dec) ==
    /\ rpc = "idle"
    /\ rpc' = "pass1"
    /\ decision' = dec
    /\ batch_decision' = dec
    /\ UNCHANGED <<batch_diff, pos, resolved_state_low, resolved_state_high,
                   applied, nonrvars>>

\* the next diff of the batch is handed to add_cruds_from_diff of both states
AddCrudsFromDiff ==
    /\ rpc \in {"pass1", "pass2"}
    /\ pos < Len(batch_diff)
    /\ resolved_state_low' =
           add_cruds_from_diff(resolved_state_low, batch_diff[pos + 1], decision)
    /\ resolved_state_high' =
           add_cruds_from_diff(resolved_state_high, batch_diff[pos + 1], decision)
    /\ pos' = pos + 1
    /\ UNCHANGED <<batch_diff, decision, batch_decision, rpc, applied, nonrvars>>

\* every diff was applied once: the same batch and decision are applied
\* again to the same two states
ResolveAgain ==
    /\ rpc = "pass1"
    /\ pos = Len(batch_diff)
    /\ rpc' = "pass2"
    /\ pos' = 0
    /\ UNCHANGED <<batch_diff, decision, batch_decision, resolved_state_low,
                   resolved_state_high, applied, nonrvars>>

\* every diff was applied twice
ResolveDone ==
    /\ rpc = "pass2"
    /\ pos = Len(batch_diff)
    /\ rpc' = "resolved"
    /\ UNCHANGED <<batch_diff, decision, batch_decision, pos, resolved_state_low,
                   resolved_state_high, applied, nonrvars>>

\* ResolveWidget.button_callback for a batch whose decision is preset (or
\* "none"), with the sync boxes of the uids in synced checked
ButtonCallback(sync_direction, preset, synced) ==
    /\ rpc = "idle"
    /\ rpc' = "clicked"
    /\ decision' = IF sync_direction = "LOW_TO_HIGH" THEN "low" ELSE "high"
    /\ batch_decision' = IF ReturnsEarly(batch_diff) THEN preset
                          ELSE IF preset # "none" THEN preset
                          ELSE decision'
    /\ resolved_state_low' =
           IF ReturnsEarly(batch_diff) THEN NewResolvedSyncState("low")
           ELSE ClickedState("low", batch_diff, synced, decision', batch_decision')
    /\ resolved_state_high' =
           IF ReturnsEarly(batch_diff) THEN NewResolvedSyncState("high")
           ELSE ClickedState("high", batch_diff, synced, decision', batch_decision')
    /\ applied' = IF ReturnsEarly(batch_diff) THEN "none"
                   ELSE IF sync_direction = "LOW_TO_HIGH" THEN "high" ELSE "low"
    /\ UNCHANGED <<batch_diff, pos, nonrvars>>

NextResolve ==
    \/ \E dec \in {"low", "high"} : Resolve(dec)
    \/ AddCrudsFromDiff
    \/ ResolveAgain
    \/ ResolveDone
    \/ \E sync_direction \in {"LOW_TO_HIGH", "HIGH_TO_LOW"},
          preset \in {"none", "low", "high", "skip", "ignore"},
          synced \in SUBSET {object_id(batch_diff[i]) : i \in 1..Len(batch_diff)} :
           ButtonCallback(sync_direction, preset, synced)

SpecResolve == InitResolve /\ [][NextResolve]_vars

\* ------------------------------------------------------------- SyncState

\* the kinds of syncable object; the kind of an object follows its identity
Kinds == <<"Request", "UserCode", "Job", "ExecutionOutput", "UserCodeStatusCollection">>
KindOf(uid) == Kinds[((uid - 1) % Len(Kinds)) + 1]

\* a SyncableSyftObject: identity, compared contents, type and the ids of the
\* objects that get_sync_dependencies returns
SyncObj(uid, attr, deps) ==
    [id |-> uid, attr |-> attr, type |-> KindOf(uid), sync_deps |-> deps]

\* type(obj)
TypeOf(obj) == IF "type" \in DOMAIN obj THEN obj.type ELSE "SyftObject"

\* ObjectDiff.obj_type = type(low_obj if low_obj is not None else high_obj)
obj_type(diff) ==
    TypeOf(IF diff.low_obj # NoObj THEN diff.low_obj ELSE diff.high_obj)

\* the identities objects can have, and one more that no object ever has
SyncUIDs == 1..SyncIds
ForeignUID == SyncIds + 1

\* what get_sync_dependencies of the object uid can return: nothing, one
\* other object, or an object that is in no snapshot
SyncDepsOf(uid) ==
    {<<>>} \cup {<<d>> : d \in (SyncUIDs \ {uid}) \cup {ForeignUID}}

\* dict.get(key, None)
GetObj(objects, uid) == IF uid \in DOMAIN objects THEN objects[uid] ELSE NoObj

\* the bug of keeping every dependency
DepsUnfiltered(deps, all_ids) == deps

\* "[d.id for d in deps if d.id in all_ids]"
DepsInState(deps, all_ids) == FilterSeq(deps, all_ids)

\* SyncState._build_dependencies: per object the dependencies that are
\* objects of the state, for the objects that have any
build_dependencies(objects) ==
    [u \in {v \in DOMAIN objects :
               DepsInState(objects[v].sync_deps, DOMAIN objects) # <<>>} |->
        DepsInState(objects[u].sync_deps, DOMAIN objects)]

\* "for obj in objects: self.objects[obj.id] = obj"
RECURSIVE PutObjects(_, _)
PutObjects(objects, objs) ==
    IF objs = <<>> THEN objects
    ELSE PutObjects(
             [u \in DOMAIN objects \cup {Head(objs).id} |->
                 IF u = Head(objs).id THEN Head(objs) ELSE objects[u]],
             Tail(objs))

\* SyncState.add_objects
add_objects(self, objs) ==
    [objects |-> PutObjects(self.objects, objs),
     dependencies |-> build_dependencies(PutObjects(self.objects, objs))]

\* "set(low_state.objects.keys()) | set(high_state.objects.keys())"
ObjectKeys(low, high) == DOMAIN low.objects \cup DOMAIN high.objects

\* the ObjectDiff that NodeDiff.from_sync_state builds for obj_id
DiffFor(low, high, obj_id) ==
    from_objects(GetObj(low.objects, obj_id), GetObj(high.objects, obj_id),
                 <<>>, <<>>)

\* NodeDiff._init_dependencies: per parent of either snapshot the union of
\* its dependencies in the two snapshots
init_dependencies(low, high) ==
    [parent \in DOMAIN low.dependencies \cup DOMAIN high.dependencies |->
        SortedSeq(Range(GetDeps(low.dependencies, parent))
                      \cup Range(GetDeps(high.dependencies, parent)))]

\* the uids that _build_hierarchy_helper lists for the roots
ListedUids(all_ids, deps) ==
    UNION {{pair.uid : pair \in Range(build_hierarchy_helper(deps, root, 0, {}))} :
               root \in Range(RootIds(all_ids, deps))}

\* self.obj_uid_to_diff[uid] raises KeyError for a listed uid without a diff
RaisesKeyError(uid_to_diff, deps) ==
    ~(ListedUids(DOMAIN uid_to_diff, deps) \subseteq DOMAIN uid_to_diff)

\* the kinds ObjectDiffBatch.visual_hierarchy knows as roots
RootKinds == {"Request", "UserCodeStatusCollection", "ExecutionOutput"}

\* ObjectDiffBatch.visual_hierarchy: the visual root type, or ValueError
visual_hierarchy(batch) ==
    IF obj_type(batch.diffs[1]) = "Request" THEN "Request"
    ELSE IF obj_type(batch.diffs[1]) \in RootKinds THEN "UserCode"
    ELSE "ValueError"

\* two empty snapshots
InitSync ==
    /\ low_state = [objects |-> EmptyMap, dependencies |-> EmptyMap]
    /\ high_state = [objects |-> EmptyMap, dependencies |-> EmptyMap]
    /\ sync_pc = "snapshots"
    /\ sync_error = "none"
    /\ made = <<>>
    /\ IdleHier
    /\ IdleResolve
    /\ IdleSort
    /\ IdleExtra

\* low_state.add_objects([obj], ...)
AddObjectsLow(uid, deps) ==
    /\ sync_pc = "snapshots"
    /\ low_state' = add_objects(low_state, <<SyncObj(uid, 1, deps)>>)
    /\ UNCHANGED <<high_state, sync_pc, sync_error, made, hvars, svars, rvars, ovars, evars>>

\* high_state.add_objects([obj], ...)
AddObjectsHigh(uid, attr, deps) ==
    /\ sync_pc = "snapshots"
    /\ high_state' = add_objects(high_state, <<SyncObj(uid, attr, deps)>>)
    /\ UNCHANGED <<low_state, sync_pc, sync_error, made, hvars, svars, rvars, ovars, evars>>

\* ObjectDiff.from_objects called for the identity obj_id on what the two
\* snapshots hold for it
CallFromObjects(obj_id) ==
    /\ sync_pc = "snapshots"
    /\ sync_pc' = "called"
    /\ made' = IF DiffFor(low_state, high_state, obj_id) = ValueError THEN <<>>
               ELSE <<DiffFor(low_state, high_state, obj_id)>>
    /\ sync_error' = IF DiffFor(low_state, high_state, obj_id) = ValueError
                     THEN "ValueError" ELSE "none"
    /\ UNCHANGED <<low_state, high_state, hvars, svars, rvars, ovars, evars>>

\* NodeDiff.from_sync_state(low_state, high_state)
FromSyncState ==
    /\ sync_pc = "snapshots"
    /\ sync_pc' = "diffed"
    /\ IF \E obj_id \in ObjectKeys(low_state, high_state) :
              DiffFor(low_state, high_state, obj_id) = ValueError
       THEN /\ sync_error' = "ValueError"
            /\ UNCHANGED <<obj_uid_to_diff, dependencies>>
       ELSE /\ sync_error' = "none"
            /\ obj_uid_to_diff' =
                   [u \in {object_id(DiffFor(low_state, high_state, obj_id)) :
                               obj_id \in ObjectKeys(low_state, high_state)} |->
                       DiffFor(low_state, high_state, u)]
            /\ dependencies' = init_dependencies(low_state, high_state)
    /\ UNCHANGED <<low_state, high_state, made, phase, hierarchies, svars, rvars, ovars, evars>>

\* NodeDiff.hierarchies on the NodeDiff that from_sync_state returned
SyncHierarchies ==
    /\ sync_pc = "diffed"
    /\ sync_error = "none"
    /\ sync_pc' = "batched"
    /\ IF RaisesKeyError(obj_uid_to_diff, dependencies)
       THEN /\ sync_error' = "KeyError"
            /\ UNCHANGED hierarchies
       ELSE /\ sync_error' = "none"
            /\ hierarchies' = Hierarchies(obj_uid_to_diff, dependencies)
    /\ UNCHANGED <<low_state, high_state, made, obj_uid_to_diff, dependencies,
                   phase, svars, rvars, ovars, evars>>

NextSync ==
    \/ \E uid \in SyncUIDs : \E deps \in SyncDepsOf(uid) : AddObjectsLow(uid, deps)
    \/ \E uid \in SyncUIDs : \E attr \in {1, 2} : \E deps \in SyncDepsOf(uid) :
           AddObjectsHigh(uid, attr, deps)
    \/ \E obj_id \in SyncUIDs : CallFromObjects(obj_id)
    \/ FromSyncState
    \/ SyncHierarchies

SpecSync == InitSync /\ [][NextSync]_vars

\* a SyncState whose fields were set directly, not through add_objects: any
\* of the objects, and a dependencies map of at most one edge, whose child
\* may be an object of no snapshot
LoadedStates ==
    {[objects |-> [u \in ids |-> SyncObj(u, 1, <<>>)], dependencies |-> deps] :
        ids \in SUBSET SyncUIDs,
        deps \in {EmptyMap} \cup
                 {[p \in {parent} |-> <<child>>] :
                     parent \in SyncUIDs, child \in SyncUIDs \cup {ForeignUID}}}

\* two snapshots as they were loaded
InitLoaded ==
    /\ low_state \in LoadedStates
    /\ high_state \in LoadedStates
    /\ sync_pc = "snapshots"
    /\ sync_error = "none"
    /\ made = <<>>
    /\ IdleHier
    /\ IdleResolve
    /\ IdleSort
    /\ IdleExtra

SpecLoaded == InitLoaded /\ [][NextSync]_vars

\* ------------------------------------------------ NodeDiff._sort_hierarchies

\* an object of the given type
KindObj(uid, kind) == [id |-> uid, attr |-> 1, type |-> kind]

\* the identities of the UserCode objects that batches can hold
CodeIds == {MaxBatches + 1, MaxBatches + 2}

\* a batch of the root alone (code = 0), or of the root and the UserCode
\* object code it depends on; the objects are the same on both sides
SortBatch(root_uid, kind, code) ==
    IF code = 0
    THEN BatchOf((root_uid :> from_objects(KindObj(root_uid, kind),
                                           KindObj(root_uid, kind), <<>>, <<>>)),
                 EmptyMap, <<[uid |-> root_uid, level |-> 0]>>)
    ELSE BatchOf((root_uid :> from_objects(KindObj(root_uid, kind),
                                           KindObj(root_uid, kind), <<>>, <<>>))
                 @@ (code :> from_objects(KindObj(code, "UserCode"),
                                          KindObj(code, "UserCode"), <<>>, <<>>)),
                 (root_uid :> <<code>>),
                 <<[uid |-> root_uid, level |-> 0], [uid |-> code, level |-> 1]>>)

\* the positions of the batch's diffs whose object is a UserCode
UserCodeAt(batch) ==
    {i \in 1..Len(batch.diffs) : obj_type(batch.diffs[i]) = "UserCode"}

\* has_usercode after the loop over hierarchy.diffs
HasUserCode(batch) == UserCodeAt(batch) # {}

\* obj.id of the first UserCode object of the batch
UserCodeOf(batch) ==
    object_id(batch.diffs[CHOOSE i \in UserCodeAt(batch) :
                              \A j \in UserCodeAt(batch) : i <= j])

\* without_usercode: the batches without a UserCode diff, in input order
RECURSIVE without_usercode(_)
without_usercode(hs) ==
    IF hs = <<>> THEN <<>>
    ELSE (IF HasUserCode(Head(hs)) THEN <<>> ELSE <<Head(hs)>>)
         \o without_usercode(Tail(hs))

\* grouped_by_usercode: "grouped_by_usercode[obj.id] = hierarchy" stores one
\* batch per UserCode id, the last of the input that holds it
grouped_by_usercode(hs) ==
    [code \in {UserCodeOf(hs[i]) : i \in {j \in 1..Len(hs) : HasUserCode(hs[j])}} |->
        hs[CHOOSE i \in 1..Len(hs) :
               /\ HasUserCode(hs[i]) /\ UserCodeOf(hs[i]) = code
               /\ \A j \in (i + 1)..Len(hs) :
                      ~(HasUserCode(hs[j]) /\ UserCodeOf(hs[j]) = code)]]

\* "hierarchy_group.sort(...)" on a value of grouped_by_usercode, which is an
\* ObjectDiffBatch and has no sort method
AttributeError == "AttributeError"

\* NodeDiff._sort_hierarchies: the error of the first group that is sorted,
\* or else the ordered list
sort_hierarchies(hs) ==
    IF DOMAIN grouped_by_usercode(hs) # {}
    THEN [error |-> AttributeError, sorted |-> <<>>]
    ELSE [error |-> "none", sorted |-> without_usercode(hs)]

\* the lists of 1 to MaxBatches batches with distinct roots
InitSort ==
    /\ \E n \in 1..MaxBatches :
           \E roots \in [1..n -> 1..n], kinds \in [1..n -> RootKinds],
              codes \in [1..n -> {0} \cup CodeIds] :
               /\ \A i, j \in 1..n : roots[i] = roots[j] => i = j
               /\ hierarchies = [i \in 1..n |->
                                    SortBatch(roots[i], kinds[i], codes[i])]
    /\ obj_uid_to_diff = EmptyMap
    /\ dependencies = EmptyMap
    /\ phase = "unsorted"
    /\ roots_left = <<>>
    /\ stack = <<>>
    /\ uid_hierarchy = <<>>
    /\ IdleSort
    /\ IdleExtra
    /\ IdleResolve
    /\ IdleSync

\* self._sort_hierarchies(hierarchies)
SortHierarchies ==
    /\ phase = "unsorted"
    /\ phase' = "sorted"
    /\ sort_error' = sort_hierarchies(hierarchies).error
    /\ sorted_hierarchies' = sort_hierarchies(hierarchies).sorted
    /\ UNCHANGED <<obj_uid_to_diff, dependencies, hierarchies, svars, rvars, yvars,
                   evars>>

NextSort == SortHierarchies

SpecSort == InitSort /\ [][NextSort]_vars

\* ------------------------------------------------------ ListDiff.from_lists

\* the bug of a range that starts at 0
PyRangeFromZero(from, to) == [k \in 1..to |-> k - 1]

\* list(range(from, to))
PyRange(from, to) == [k \in 1..(to - from) |-> from + k - 1]

\* "for i in range(common_length): if low_list[i] != high_list[i]:
\* diff_ids.append(i)", from index i on; Python indices start at 0
RECURSIVE DiffIdsFrom(_, _, _, _)
DiffIdsFrom(low, high, i, common_length) ==
    IF i >= common_length THEN <<>>
    ELSE (IF low[i + 1] # high[i + 1] THEN <<i>> ELSE <<>>)
         \o DiffIdsFrom(low, high, i + 1, common_length)

\* ListDiff.from_lists
from_lists(low, high) ==
    LET common_length ==
            IF Len(low) # Len(high)
            THEN (IF Len(low) > Len(high) THEN Len(high) ELSE Len(low))
            ELSE Len(low)
    IN [diff_ids |-> DiffIdsFrom(low, high, 0, common_length),
        new_low_ids |-> IF Len(low) > Len(high)
                        THEN PyRange(common_length, Len(low)) ELSE <<>>,
        new_high_ids |-> IF Len(low) < Len(high)
                         THEN PyRange(common_length, Len(high)) ELSE <<>>]

\* ListDiff.is_empty
is_empty(diff) ==
    /\ Len(diff.diff_ids) = 0
    /\ Len(diff.new_low_ids) = 0
    /\ Len(diff.new_high_ids) = 0

\* the lists of at most MaxListLen elements
Lists == UNION {[1..n -> {1, 2}] : n \in 0..MaxListLen}

InitList ==
    /\ low_list \in Lists
    /\ high_list \in Lists
    /\ change_diff = EmptyListDiff
    /\ list_pc = "input"
    /\ IdleHier
    /\ IdleResolve
    /\ IdleSync
    /\ IdleSort
    /\ IdleQueue

\* change_diff = ListDiff.from_lists(attr_name, low_list, high_list)
FromLists ==
    /\ list_pc = "input"
    /\ list_pc' = "done"
    /\ change_diff' = from_lists(low_list, high_list)
    /\ UNCHANGED <<low_list, high_list, hvars, svars, rvars, yvars, ovars, qvars>>

NextList == FromLists

SpecList == InitList /\ [][NextList]_vars

\* ------------------------------------------- queue.py: handling a message

\* what the called service method can do
Outcomes == {"Ok", "OkErrData", "Error", "Unknown", "Raised"}

\* status and job_status as the try block leaves them for a returned result
StatusOf(outcome) == IF outcome = "Ok" THEN "COMPLETED" ELSE "ERRORED"

\* evaluate_can_run_job: an error for a job that is completed, resolved or
\* interrupted
CanRunJob(job_item) ==
    /\ ~(job_item.status = "COMPLETED" \/ job_item.resolved)
    /\ job_item.status # "INTERRUPTED"

\* the jobs a message can arrive for
InitQueue ==
    /\ q_pc = "message"
    /\ q_outcome = "none"
    /\ queue_item = Unresolved
    /\ stash_queue_item = Unresolved
    /\ stash_job \in {Unresolved,
                      [status |-> "COMPLETED", resolved |-> TRUE],
                      [status |-> "INTERRUPTED", resolved |-> FALSE]}
    /\ monitor_pc = "none"
    /\ stop_requested = FALSE
    /\ IdleHier
    /\ IdleResolve
    /\ IdleSync
    /\ IdleSort
    /\ IdleList

\* APICallMessageHandler.handle_message up to the call of
\* handle_message_multiprocessing: the job is tested, both items are set to
\* PROCESSING and stored; a refused job or a failed store raises
HandleMessage(queue_stored, job_stored) ==
    /\ q_pc = "message"
    /\ IF ~CanRunJob(stash_job)
       THEN /\ q_pc' = "raised"
            /\ UNCHANGED <<queue_item, stash_queue_item, stash_job>>
       ELSE /\ queue_item' = [queue_item EXCEPT !.status = "PROCESSING"]
            /\ stash_queue_item' = IF queue_stored THEN queue_item'
                                   ELSE stash_queue_item
            /\ stash_job' = IF queue_stored /\ job_stored
                            THEN [stash_job EXCEPT !.status = "PROCESSING"]
                            ELSE stash_job
            /\ q_pc' = IF queue_stored /\ job_stored THEN "processing"
                       ELSE "raised"
    /\ UNCHANGED <<q_outcome, monitor_pc, stop_requested>>
    /\ UNCHANGED <<hvars, svars, rvars, yvars, ovars, lvars>>

\* monitor_thread = MonitorThread(...); monitor_thread.start()
StartMonitor ==
    /\ q_pc = "processing"
    /\ monitor_pc' = "running"
    /\ q_pc' = "try"
    /\ UNCHANGED <<q_outcome, queue_item, stash_queue_item, stash_job,
                   stop_requested>>
    /\ UNCHANGED <<hvars, svars, rvars, yvars, ovars, lvars>>

\* the try block is left by an exception: call_method raised, or the result is
\* of an unknown type; "except Exception as e: ... raise e" passes it on
Reraised(outcome) == outcome \in {"Unknown", "Raised"}

\* the try block: call_method is called and status, job_status are chosen
CallMethod(outcome) ==
    /\ q_pc = "try"
    /\ q_outcome' = outcome
    /\ q_pc' = IF Reraised(outcome) THEN "raised" ELSE "called"
    /\ UNCHANGED <<queue_item, stash_queue_item, stash_job, monitor_pc,
                   stop_requested>>
    /\ UNCHANGED <<hvars, svars, rvars, yvars, ovars, lvars>>

\* queue_item.resolved = True; queue_item.status = status
ResolveQueueItem ==
    /\ q_pc = "called"
    /\ queue_item' = [status |-> StatusOf(q_outcome), resolved |-> TRUE]
    /\ q_pc' = "item_resolved"
    /\ UNCHANGED <<q_outcome, stash_queue_item, stash_job, monitor_pc,
                   stop_requested>>
    /\ UNCHANGED <<hvars, svars, rvars, yvars, ovars, lvars>>

\* the job is fetched again and resolved, and both items are stored
SetResult ==
    /\ q_pc = "item_resolved"
    /\ stash_queue_item' = queue_item
    /\ stash_job' = [status |-> StatusOf(q_outcome), resolved |-> TRUE]
    /\ q_pc' = "stored"
    /\ UNCHANGED <<q_outcome, queue_item, monitor_pc, stop_requested>>
    /\ UNCHANGED <<hvars, svars, rvars, yvars, ovars, lvars>>

\* monitor_thread.stop()
StopMonitor ==
    /\ q_pc = "stored"
    /\ stop_requested' = TRUE
    /\ q_pc' = "returned"
    /\ UNCHANGED <<q_outcome, queue_item, stash_queue_item, stash_job,
                   monitor_pc>>
    /\ UNCHANGED <<hvars, svars, rvars, yvars, ovars, lvars>>

\* MonitorThread.run: "while not self.stop_requested.is_set()"
MonitorTest ==
    /\ monitor_pc = "running"
    /\ monitor_pc' = IF stop_requested THEN "finished" ELSE "monitor"
    /\ UNCHANGED <<q_pc, q_outcome, queue_item, stash_queue_item, stash_job,
                   stop_requested>>
    /\ UNCHANGED <<hvars, svars, rvars, yvars, ovars, lvars>>

\* what psutil.Process(job.job_pid).terminate() can do, job_pid being set
\* outside this code: end the process of the handler and of this thread, end
\* another process, or raise for a process that is gone
Terminations == {"own", "other", "gone"}

\* the handler is still running
HandlerRuns == q_pc \notin {"raised", "returned", "terminated"}

\* MonitorThread.monitor: nothing for a job that is not INTERRUPTED; else the
\* job and the queue item are resolved as INTERRUPTED, stored, and the
\* process of the job is terminated
Monitor(termination) ==
    /\ monitor_pc = "monitor"
    /\ IF stash_job.status # "INTERRUPTED"
       THEN /\ monitor_pc' = "sleeping"
            /\ UNCHANGED <<q_pc, queue_item, stash_queue_item, stash_job>>
       ELSE /\ stash_job' = [stash_job EXCEPT !.resolved = TRUE]
            /\ queue_item' = [status |-> "INTERRUPTED", resolved |-> TRUE]
            /\ stash_queue_item' = queue_item'
            /\ monitor_pc' = CASE termination = "own" -> "terminated"
                               [] termination = "gone" -> "died"
                               [] OTHER -> "sleeping"
            /\ q_pc' = IF termination = "own" /\ HandlerRuns
                       THEN "terminated" ELSE q_pc
    /\ UNCHANGED <<q_outcome, stop_requested>>
    /\ UNCHANGED <<hvars, svars, rvars, yvars, ovars, lvars>>

\* time.sleep(self.interval) is over
MonitorWake ==
    /\ monitor_pc = "sleeping"
    /\ monitor_pc' = "running"
    /\ UNCHANGED <<q_pc, q_outcome, queue_item, stash_queue_item, stash_job,
                   stop_requested>>
    /\ UNCHANGED <<hvars, svars, rvars, yvars, ovars, lvars>>

\* somebody interrupts the job while it is being processed: the status that
\* MonitorThread.monitor looks for appears in the job stash
Interrupt ==
    /\ stash_job.status = "PROCESSING"
    /\ ~stash_job.resolved
    /\ stash_job' = [stash_job EXCEPT !.status = "INTERRUPTED"]
    /\ UNCHANGED <<q_pc, q_outcome, queue_item, stash_queue_item, monitor_pc,
                   stop_requested>>
    /\ UNCHANGED <<hvars, svars, rvars, yvars, ovars, lvars>>

\* the steps of the handler and those of the monitor thread
HandlerStep ==
    \/ \E queue_stored, job_stored \in BOOLEAN :
           HandleMessage(queue_stored, job_stored)
    \/ StartMonitor
    \/ \E outcome \in Outcomes : CallMethod(outcome)
    \/ ResolveQueueItem
    \/ SetResult
    \/ StopMonitor

MonitorStep ==
    \/ MonitorTest
    \/ \E termination \in Terminations : Monitor(termination)
    \/ MonitorWake

NextQueue ==
    \/ HandlerStep
    \/ MonitorStep
    \/ Interrupt

\* the handler and the thread both keep running; nobody has to interrupt
SpecQueue ==
    /\ InitQueue
    /\ [][NextQueue]_vars
    /\ WF_vars(HandlerStep)
    /\ WF_vars(MonitorStep)

\* ------------------------------------------------------------------ claims

\* C1: every batch returned by NodeDiff.hierarchies lists each identity at
\* most once in its diffs, for every dependency map (a descendant reachable
\* through two children of one parent is listed under the first only).
C1_BatchListsIdentityOnce ==
    phase = "done" =>
        \A i \in 1..Len(hierarchies) :
            \A u \in DOMAIN obj_uid_to_diff :
                Count(BatchIds(hierarchies[i]), u) <= 1

\* the batches whose diffs hold uid
BatchesWith(uid) ==
    {b \in 1..Len(hierarchies) : uid \in Range(BatchIds(hierarchies[b]))}

NewIds == {u \in DOMAIN obj_uid_to_diff : status(obj_uid_to_diff[u]) = "NEW"}

HelperAgrees ==
    phase = "done" /\ roots_left = <<>> =>
        hierarchies = Hierarchies(obj_uid_to_diff, dependencies)

\* C4: for every dependency map, cycles included, every call of
\* _build_hierarchy_helper returns, so NodeDiff.hierarchies returns.
C4_HierarchiesReturns == <>(phase = "done")

\* hierarchies has returned for a map with a cycle inside a batch (a self-loop
\* or a longer cycle below the root)
C4_Witness ==
    /\ phase = "done"
    /\ \E b \in 1..Len(hierarchies) :
           \E u \in DOMAIN hierarchies[b].dependents :
               \E v \in Range(hierarchies[b].dependents[u]) :
                   /\ v \in DOMAIN hierarchies[b].dependents
                   /\ u \in Range(hierarchies[b].dependents[v])

\* C3: for dependencies = {A: [B], B: [A]} with A and B the diffs,
\* NodeDiff.hierarchies returns exactly one batch, which holds A exactly once
\* and B exactly once.
C3_TwoCycleOneBatch ==
    (/\ phase = "done"
     /\ DOMAIN obj_uid_to_diff = {1, 2}
     /\ dependencies = (1 :> <<2>> @@ 2 :> <<1>>))
    => /\ Len(hierarchies) = 1
       /\ Count(BatchIds(hierarchies[1]), 1) = 1
       /\ Count(BatchIds(hierarchies[1]), 2) = 1


\* --------------------------------------------- claims on the resolution

\* the diffs handed to add_cruds_from_diff so far, in order
AppliedDiffs ==
    IF rpc = "pass1" THEN SubSeq(batch_diff, 1, pos)
    ELSE IF rpc = "pass2" THEN batch_diff \o SubSeq(batch_diff, 1, pos)
    ELSE IF rpc = "resolved" THEN batch_diff \o batch_diff
    ELSE <<>>

IsLowOnly(diff) == status(diff) = "NEW" /\ diff.high_obj = NoObj
IsHighOnly(diff) == status(diff) = "NEW" /\ diff.low_obj = NoObj

\* C5: with decision "low", once add_cruds_from_diff of the high-alias state
\* has taken the diffs of a batch, high.create_objs holds the low entity of
\* every NEW diff that exists only on the low side, high.update_objs holds the
\* low entity of every DIFF diff, each exactly once, and the two lists hold
\* nothing else.
C5_LowDecisionFillsHigh ==
    decision = "low" /\ rpc \in {"pass1", "pass2", "resolved"} =>
        /\ \A i \in 1..Len(AppliedDiffs) :
               /\ IsLowOnly(AppliedDiffs[i]) =>
                      Count(resolved_state_high.create_objs,
                            AppliedDiffs[i].low_obj) = 1
               /\ status(AppliedDiffs[i]) = "DIFF" =>
                      Count(resolved_state_high.update_objs,
                            AppliedDiffs[i].low_obj) = 1
        /\ Range(resolved_state_high.create_objs) =
               {AppliedDiffs[i].low_obj :
                    i \in {j \in 1..Len(AppliedDiffs) : IsLowOnly(AppliedDiffs[j])}}
        /\ Range(resolved_state_high.update_objs) =
               {AppliedDiffs[i].low_obj :
                    i \in {j \in 1..Len(AppliedDiffs) :
                               status(AppliedDiffs[j]) = "DIFF"}}

\* a batch that lists one low-only NEW diff twice and a DIFF diff was resolved
C5_Witness ==
    /\ rpc = "pass2" /\ pos = 0 /\ decision = "low"
    /\ \E i, j, k \in 1..Len(batch_diff) :
           /\ i # j
           /\ batch_diff[i] = batch_diff[j]
           /\ IsLowOnly(batch_diff[i])
           /\ status(batch_diff[k]) = "DIFF"
    /\ Len(resolved_state_high.create_objs) = 1
    /\ Len(resolved_state_high.update_objs) = 1

\* the next diff handed to add_cruds_from_diff is NEW and only on the high
\* side, and the decision is "low"
HighOnlyNext ==
    /\ rpc \in {"pass1", "pass2"}
    /\ pos < Len(batch_diff)
    /\ decision = "low"
    /\ IsHighOnly(batch_diff[pos + 1])

\* C6 as stated: with decision "low", add_cruds_from_diff of the high-alias
\* state for a NEW diff that exists only on the high side leaves create_objs,
\* update_objs and delete_objs unchanged.
C6_HighOnlyIsNoOp ==
    [][HighOnlyNext => Cruds(resolved_state_high') = Cruds(resolved_state_high)]_vars

\* C6 amended: with decision "low", add_cruds_from_diff of the high-alias state
\* for a NEW diff that exists only on the high side leaves create_objs and
\* update_objs unchanged and appends the high entity to delete_objs unless it
\* is already there.
C6_HighOnlyIsDeleted ==
    [][HighOnlyNext =>
          /\ resolved_state_high'.create_objs = resolved_state_high.create_objs
          /\ resolved_state_high'.update_objs = resolved_state_high.update_objs
          /\ Count(resolved_state_high'.delete_objs,
                   batch_diff[pos + 1].high_obj) = 1
          /\ resolved_state_high'.delete_objs =
                 IF Count(resolved_state_high.delete_objs,
                          batch_diff[pos + 1].high_obj) = 1
                 THEN resolved_state_high.delete_objs
                 ELSE Append(resolved_state_high.delete_objs,
                             batch_diff[pos + 1].high_obj)]_vars

\* the first pass has just applied a high-only NEW diff with decision "low"
C6_Witness ==
    /\ rpc = "pass1" /\ pos > 0 /\ decision = "low"
    /\ IsHighOnly(batch_diff[pos])
    /\ resolved_state_high.delete_objs = <<batch_diff[pos].high_obj>>

\* C7: handing every diff of the batch to add_cruds_from_diff a second time,
\* with the same decision and the same two states, changes neither state: no
\* step of the second pass changes a list.
C7_SecondPassChangesNothing ==
    [][rpc = "pass2" =>
          /\ resolved_state_low' = resolved_state_low
          /\ resolved_state_high' = resolved_state_high]_vars

\* the second pass is over for a batch that filled two lists of one state
C7_Witness ==
    /\ rpc = "resolved"
    /\ \E st \in {resolved_state_low, resolved_state_high} :
           /\ st.update_objs # <<>>
           /\ st.create_objs # <<>> \/ st.delete_objs # <<>>

\* C8: with decision "high", the create, update and delete lists of the
\* low-alias state are those that a high-alias state gets with decision "low"
\* from the same diffs with their low and high sides exchanged.
C8_HighToLowMirrors ==
    decision = "high" /\ rpc \in {"pass1", "pass2", "resolved"} =>
        Cruds(resolved_state_low) =
            Cruds(AddAll(NewResolvedSyncState("high"),
                         [i \in 1..Len(AppliedDiffs) |-> Mirror(AppliedDiffs[i])],
                         "low"))

\* decision "high" filled the create and the delete list of the low-alias state
C8_Witness ==
    /\ decision = "high" /\ rpc = "pass1" /\ pos = Len(batch_diff)
    /\ resolved_state_low.create_objs # <<>>
    /\ resolved_state_low.delete_objs # <<>>

\* C9: when button_callback resolves a batch whose decision is skip or ignore,
\* the create_objs, update_objs, delete_objs and new_permissions of both
\* states are as they were created, whatever the statuses of the batch's diffs.
C9_SkipIgnoreLeaveStates ==
    rpc = "clicked" /\ batch_decision \in {"skip", "ignore"} =>
        \A st \in {resolved_state_low, resolved_state_high} :
            /\ Cruds(st) = <<<<>>, <<>>, <<>>>>
            /\ st.new_permissions = <<>>

\* an ignored batch with a NEW and a DIFF diff went through button_callback
C9_Witness ==
    /\ rpc = "clicked" /\ batch_decision = "ignore"
    /\ \E i, j \in 1..Len(batch_diff) :
           status(batch_diff[i]) = "NEW" /\ status(batch_diff[j]) = "DIFF"
    /\ resolved_state_high.ignored_batches # <<>>

\* C10: with decision "low", once a diff is resolved the high-alias state's
\* new_permissions holds every permission that is in the diff's
\* low_permissions and not in its high_permissions.
C10_LowGrantsReachHigh ==
    decision = "low" /\ rpc \in {"pass1", "pass2", "resolved"} =>
        \A i \in 1..Len(AppliedDiffs) :
            Range(AppliedDiffs[i].low_permissions)
                \ Range(AppliedDiffs[i].high_permissions)
                    \subseteq Range(resolved_state_high.new_permissions)


\* every diff of the batch has status SAME
AllSame == \A i \in 1..Len(batch_diff) : status(batch_diff[i]) = "SAME"

\* C11: for a batch whose diffs all have status SAME, resolving with decision
\* "low" leaves the high-alias state without create, update or delete entries,
\* and button_callback hands no state to client.apply_state.
C11_UnchangedBatchNotSent ==
    AllSame =>
        /\ decision = "low" /\ rpc \in {"pass1", "pass2", "resolved", "clicked"} =>
               Cruds(resolved_state_high) = <<<<>>, <<>>, <<>>>>
        /\ rpc = "clicked" => applied = "none"

\* button_callback ran low to high on a batch of two or more SAME diffs, one
\* of them with a permission that only the low side has
C11_Witness ==
    /\ AllSame
    /\ Len(batch_diff) >= 2
    /\ \E i \in 1..Len(batch_diff) : batch_diff[i].low_permissions # <<>>
    /\ rpc = "clicked" /\ decision = "low" /\ batch_decision = "low"
    /\ applied = "none"


\* ------------------------------------------------- claims on ObjectDiff

\* the number of sides, 0 to 2, on which the diff's object is present
SidesPresent(diff) ==
    (IF diff.low_obj # NoObj THEN 1 ELSE 0) + (IF diff.high_obj # NoObj THEN 1 ELSE 0)

\* C12: for every ObjectDiff built by from_objects, the status is NEW iff
\* exactly one of low_obj and high_obj is present, and then diff_list is empty;
\* SAME iff both are present and diff_list is empty; DIFF iff both are present
\* and diff_list is not empty; and it is one of the three.
C12_StatusFromContents ==
    \A u \in DOMAIN obj_uid_to_diff :
        LET diff == obj_uid_to_diff[u] IN
        /\ status(diff) \in {"NEW", "SAME", "DIFF"}
        /\ status(diff) = "NEW" <=> SidesPresent(diff) = 1
        /\ status(diff) = "NEW" => diff.diff_list = <<>>
        /\ status(diff) = "SAME" <=> SidesPresent(diff) = 2 /\ diff.diff_list = <<>>
        /\ status(diff) = "DIFF" <=> SidesPresent(diff) = 2 /\ diff.diff_list # <<>>

\* a NodeDiff that holds a NEW, a SAME and a DIFF diff
C12_Witness ==
    \E u, v, w \in DOMAIN obj_uid_to_diff :
        /\ status(obj_uid_to_diff[u]) = "NEW"
        /\ status(obj_uid_to_diff[v]) = "SAME"
        /\ status(obj_uid_to_diff[w]) = "DIFF"


\* --------------------------------------------------- claims on snapshots

\* C13: ObjectDiff.from_objects for an identity that neither snapshot holds
\* raises ValueError and produces no diff (a diff that was produced is the diff
\* of an object of a snapshot); NodeDiff.from_sync_state never raises it and
\* returns one diff for every key of either snapshot's objects.
C13_NoDiffFromNothing ==
    /\ sync_pc = "called" =>
           /\ made = <<>> <=> sync_error = "ValueError"
           /\ made # <<>> => object_id(made[1]) \in ObjectKeys(low_state, high_state)
           /\ ObjectKeys(low_state, high_state) = {} => made = <<>>
    /\ sync_pc \in {"diffed", "batched"} =>
           /\ sync_error # "ValueError"
           /\ DOMAIN obj_uid_to_diff = ObjectKeys(low_state, high_state)
           /\ \A u \in DOMAIN obj_uid_to_diff : obj_uid_to_diff[u] # ValueError

\* from_objects was called for an identity of neither snapshot while the
\* snapshots hold another object, and it raised
C13_Witness ==
    /\ sync_pc = "called"
    /\ sync_error = "ValueError"
    /\ made = <<>>
    /\ DOMAIN low_state.objects # {}
    /\ DOMAIN high_state.objects # {}

\* the snapshot has no dangling edge
NoDanglingEdge(state) ==
    \A parent \in DOMAIN state.dependencies :
        /\ parent \in DOMAIN state.objects
        /\ Range(state.dependencies[parent]) \subseteq DOMAIN state.objects

C15_NoDanglingAfterAddObjects ==
    NoDanglingEdge(low_state) /\ NoDanglingEdge(high_state)

\* a snapshot holds an object whose dependency on an absent object was
\* filtered out and an object whose dependency was kept
C15_Witness ==
    \E u, v \in DOMAIN low_state.objects :
        /\ low_state.objects[u].sync_deps # <<>>
        /\ u \notin DOMAIN low_state.dependencies
        /\ v \in DOMAIN low_state.dependencies

\* C16: NodeDiff.hierarchies returns no batch whose root's type is outside
\* the root kinds: such a batch is rejected when it is constructed.
C16_UnknownRootRejectedAtConstruction ==
    sync_pc = "batched" /\ sync_error = "none" =>
        \A b \in 1..Len(hierarchies) :
            visual_hierarchy(hierarchies[b]) # "ValueError"


\* -------------------------------------------- claims on a batch's fields

\* the dependency map {Request: [UserCode], UserCode: [Job, Job2]} with the
\* identities 1 to 4 for Request, UserCode, Job and Job2
RequestExample == (1 :> <<2>>) @@ (2 :> <<3, 4>>)

IsRequestExample ==
    /\ phase = "done"
    /\ DOMAIN obj_uid_to_diff = 1..4
    /\ dependencies = RequestExample

\* C17: in every batch hierarchy_levels is as long as diffs, the first level
\* is 0, and every later entry lies one level below the entry it was expanded
\* from, the nearest earlier entry of a smaller level, which has it among its
\* dependencies; the example map gives one batch with levels [0, 1, 2, 2].
C17_LevelsFollowExpansion ==
    /\ phase = "done" =>
           \A b \in 1..Len(hierarchies) :
               LET levels == hierarchies[b].hierarchy_levels
                   ids == BatchIds(hierarchies[b])
               IN /\ Len(levels) = Len(hierarchies[b].diffs)
                  /\ levels[1] = 0
                  /\ \A i \in 2..Len(levels) :
                         \E j \in 1..(i - 1) :
                             /\ levels[j] = levels[i] - 1
                             /\ \A k \in (j + 1)..(i - 1) : levels[k] >= levels[i]
                             /\ ids[i] \in Range(GetDeps(dependencies, ids[j]))
    /\ IsRequestExample =>
           /\ Len(hierarchies) = 1
           /\ BatchIds(hierarchies[1]) = <<1, 2, 3, 4>>
           /\ hierarchies[1].hierarchy_levels = <<0, 1, 2, 2>>

\* hierarchies returned for the example map
C17_Witness ==
    /\ IsRequestExample
    /\ Len(hierarchies) = 1
    /\ Len(hierarchies[1].hierarchy_levels) = 4

\* C18: in every batch p is in dependents[c] exactly when c is in the batch's
\* dependencies[p], once, and dependents has no key without a parent; the
\* example map gives dependents[Job] = [UserCode].
C18_DependentsInvertDependencies ==
    /\ phase = "done" =>
           \A b \in 1..Len(hierarchies) :
               LET deps == hierarchies[b].dependencies
                   dependents == hierarchies[b].dependents
               IN /\ \A p, c \in DOMAIN obj_uid_to_diff :
                         (c \in DOMAIN dependents /\ p \in Range(dependents[c]))
                             <=> (p \in DOMAIN deps /\ c \in Range(deps[p]))
                  /\ \A c \in DOMAIN dependents :
                         /\ dependents[c] # <<>>
                         /\ \A p \in Range(dependents[c]) : Count(dependents[c], p) = 1
                         /\ Range(dependents[c]) \subseteq DOMAIN obj_uid_to_diff
                  /\ DOMAIN dependents \subseteq DOMAIN obj_uid_to_diff
    /\ IsRequestExample => hierarchies[1].dependents[3] = <<2>>

\* a batch in which one object has two parents and one parent two children
C18_Witness ==
    /\ phase = "done"
    /\ \E b \in 1..Len(hierarchies) :
           /\ \E c \in DOMAIN hierarchies[b].dependents :
                  Len(hierarchies[b].dependents[c]) = 2
           /\ \E p \in DOMAIN hierarchies[b].dependencies :
                  Len(hierarchies[b].dependencies[p]) = 2


\* ---------------------------------------------- claims on batch ordering

\* the root identity of a batch
RootId(batch) == object_id(batch.diffs[1])

\* hierarchy_order.index(x.root.obj_type)
KindPriority(batch) ==
    CHOOSE i \in 1..3 :
        <<"UserCodeStatusCollection", "Request", "ExecutionOutput">>[i]
            = obj_type(batch.diffs[1])

\* the list out holds exactly the batches of the list in
SameBatches(out, in) ==
    Len(out) = Len(in) /\ Range(out) = Range(in)

\* C19: the list that _sort_hierarchies returns holds the batches it was
\* given, every batch that holds a UserCode diff before every batch that holds
\* none, and the batches that hold none in ascending order of root identity.
C19_UserCodeBatchesFirst ==
    phase = "sorted" /\ sort_error = "none" =>
        /\ SameBatches(sorted_hierarchies, hierarchies)
        /\ \A i, j \in 1..Len(sorted_hierarchies) :
               i < j =>
                   /\ HasUserCode(sorted_hierarchies[j])
                          => HasUserCode(sorted_hierarchies[i])
                   /\ (~HasUserCode(sorted_hierarchies[i])
                       /\ ~HasUserCode(sorted_hierarchies[j]))
                          => RootId(sorted_hierarchies[i]) < RootId(sorted_hierarchies[j])

\* C20: in the list _sort_hierarchies returns, the batches that share a
\* UserCode identity are all there and stand in ascending order of (priority
\* of the root's kind, root identity), whatever the order of the input.
C20_GroupsSortedByKindAndId ==
    phase = "sorted" /\ (\E i \in 1..Len(hierarchies) : HasUserCode(hierarchies[i])) =>
        /\ sort_error = "none"
        /\ \A i \in 1..Len(hierarchies) :
               HasUserCode(hierarchies[i]) => hierarchies[i] \in Range(sorted_hierarchies)
        /\ \A i, j \in 1..Len(sorted_hierarchies) :
               (/\ i < j
                /\ HasUserCode(sorted_hierarchies[i])
                /\ HasUserCode(sorted_hierarchies[j])
                /\ UserCodeOf(sorted_hierarchies[i]) = UserCodeOf(sorted_hierarchies[j]))
                   => \/ KindPriority(sorted_hierarchies[i])
                             < KindPriority(sorted_hierarchies[j])
                      \/ /\ KindPriority(sorted_hierarchies[i])
                                = KindPriority(sorted_hierarchies[j])
                         /\ RootId(sorted_hierarchies[i]) < RootId(sorted_hierarchies[j])


\* ---------------------------------------------- claims on the whole NodeDiff

\* C21: objs_to_sync returns the objects of exactly the NEW diffs that are in
\* some batch, each once, and the object of no SAME or DIFF diff; for an empty
\* low snapshot and a high snapshot of the single object X it returns [X].
C21_ObjsToSyncAreTheNew ==
    phase = "done" =>
        /\ Range(objs_to_sync(hierarchies)) =
               {get_obj(obj_uid_to_diff[u]) : u \in {v \in NewIds : BatchesWith(v) # {}}}
        /\ \A i \in 1..Len(objs_to_sync(hierarchies)) :
               Count(objs_to_sync(hierarchies), objs_to_sync(hierarchies)[i]) = 1
        /\ (/\ DOMAIN obj_uid_to_diff = {1}
            /\ obj_uid_to_diff[1].low_obj = NoObj
            /\ dependencies = EmptyMap)
               => objs_to_sync(hierarchies) = <<obj_uid_to_diff[1].high_obj>>

\* a NEW diff is in two batches, next to a diff that is not NEW, and
\* objs_to_sync returned one object
C21_Witness ==
    /\ phase = "done"
    /\ \E u \in NewIds : Cardinality(BatchesWith(u)) >= 2
    /\ \E v \in DOMAIN obj_uid_to_diff : v \notin NewIds /\ BatchesWith(v) # {}
    /\ Len(objs_to_sync(hierarchies)) = 1


\* the keys of obj_uid_to_diff that are in no value list of dependencies
RootSet ==
    {u \in DOMAIN obj_uid_to_diff :
        \A p \in DOMAIN dependencies : u \notin Range(dependencies[p])}

\* C22: NodeDiff.hierarchies returns one batch per root, a root being a key of
\* obj_uid_to_diff that is a child in no value list of dependencies; the root
\* is the batch's diffs[0] and no two batches have the same root.
C22_OneBatchPerRoot ==
    phase = "done" =>
        /\ {RootId(hierarchies[b]) : b \in 1..Len(hierarchies)} = RootSet
        /\ Len(hierarchies) = Cardinality(RootSet)
        /\ \A b, c \in 1..Len(hierarchies) :
               RootId(hierarchies[b]) = RootId(hierarchies[c]) => b = c

\* two batches were returned for a NodeDiff that also has objects that are
\* not roots
C22_Witness ==
    /\ phase = "done"
    /\ Len(hierarchies) = 2
    /\ Cardinality(DOMAIN obj_uid_to_diff) = 4

\* C23: in every batch diffs[0] is a child in no list of the batch's
\* dependencies, and every diff of the batch is reachable from diffs[0] along
\* the edges of the batch's dependencies.
C23_BatchReachableFromRoot ==
    phase = "done" =>
        \A b \in 1..Len(hierarchies) :
            /\ RootId(hierarchies[b]) \notin ChildIds(hierarchies[b].dependencies)
            /\ Range(BatchIds(hierarchies[b]))
                   \subseteq Reach(hierarchies[b].dependencies, RootId(hierarchies[b]))

\* a batch with an object two edges below its root
C23_Witness ==
    /\ phase = "done"
    /\ \E b \in 1..Len(hierarchies) :
           \E i \in 1..Len(hierarchies[b].hierarchy_levels) :
               hierarchies[b].hierarchy_levels[i] = 2

\* C24: the dependencies of every batch is the NodeDiff's dependencies
\* restricted to the batch: its keys are the identities of the batch, every
\* listed child is in the batch, and every edge of the NodeDiff between two
\* identities of the batch is kept.
C24_BatchDependenciesRestricted ==
    phase = "done" =>
        \A b \in 1..Len(hierarchies) :
            LET ids == Range(BatchIds(hierarchies[b]))
                deps == hierarchies[b].dependencies
            IN /\ DOMAIN deps = ids
               /\ \A p \in ids : Range(deps[p]) \subseteq ids
               /\ \A p, c \in ids :
                      c \in Range(GetDeps(dependencies, p)) <=> c \in Range(deps[p])

\* two batches, one with an edge and each without the other's root
C24_Witness ==
    /\ phase = "done"
    /\ Len(hierarchies) >= 2
    /\ \E b \in 1..Len(hierarchies) : ChildIds(hierarchies[b].dependencies) # {}
    /\ \E b, c \in 1..Len(hierarchies) :
           RootId(hierarchies[c]) \notin Range(BatchIds(hierarchies[b]))


\* ------------------------------------- claims on _build_hierarchy_helper

\* entry k of a batch lies in the expansion of its entry j
InExpansion(levels, j, k) ==
    k > j /\ \A m \in (j + 1)..k : levels[m] > levels[j]

\* in every batch, a direct child of an entry occurs at most once in that
\* entry's expansion, and then one level below it
ChildOnceAtTop ==
    \A b \in 1..Len(hierarchies) :
        LET levels == hierarchies[b].hierarchy_levels
            ids == BatchIds(hierarchies[b])
        IN \A j \in 1..Len(ids) :
               \A c \in Range(GetDeps(dependencies, ids[j])) :
                   /\ Cardinality({k \in 1..Len(ids) :
                          InExpansion(levels, j, k) /\ ids[k] = c}) <= 1
                   /\ \A k \in 1..Len(ids) :
                          InExpansion(levels, j, k) /\ ids[k] = c
                              => levels[k] = levels[j] + 1

\* the loop of the running call stands at a dependency
AtDependency ==
    phase = "running" /\ stack # <<>> /\ Top.i <= Len(TopDeps)

\* the step for a dependency: one that is not visited is emitted one level
\* below and its call knows the other children as visited; one that is
\* visited is passed over without an entry and without an error
ExpansionStep ==
    AtDependency =>
        IF TopDeps[Top.i] \notin Top.visited
        THEN /\ uid_hierarchy' = Append(uid_hierarchy,
                                     [uid |-> TopDeps[Top.i], level |-> Top.level + 1])
             /\ Len(stack') = Len(stack) + 1
             /\ stack'[Len(stack')].uid = TopDeps[Top.i]
             /\ (Range(TopDeps) \ {TopDeps[Top.i]}) \subseteq stack'[Len(stack')].visited
             /\ Top.visited \subseteq stack'[Len(stack')].visited
        ELSE /\ uid_hierarchy' = uid_hierarchy
             /\ Len(stack') = Len(stack)
             /\ phase' = "running"

\* C25: while _build_hierarchy_helper expands P, a child of P that is not
\* visited is emitted directly under P at level(P) + 1 and is in the visited
\* set of the calls for P's other children, so a direct child of P that a
\* sibling also depends on occurs once in P's expansion, directly under P; a
\* child that is visited is dropped from the branch without an error.
C25_ChildrenAtHighestPosition ==
    []ChildOnceAtTop /\ [][ExpansionStep]_vars

\* hierarchies returned for P = 1 with children 2 and 3, where 2 depends on 3
C25_Witness ==
    /\ phase = "done"
    /\ dependencies = (1 :> <<2, 3>>) @@ (2 :> <<3>>)
    /\ Len(hierarchies) = 1
    /\ BatchIds(hierarchies[1]) = <<1, 2, 3>>
    /\ hierarchies[1].hierarchy_levels = <<0, 1, 1>>


\* ---------------------------------------------------- claims on ListDiff

\* the shorter of the two lengths
CommonLen == IF Len(low_list) < Len(high_list) THEN Len(low_list) ELSE Len(high_list)

\* the sequence lists its elements in strictly ascending order
Ascending(ids) == \A i, j \in 1..Len(ids) : i < j => ids[i] < ids[j]

\* C26: from_lists compares the common prefix only: diff_ids lists in
\* ascending order the indices below min(len(low), len(high)) at which the
\* lists differ, new_low_ids is the index range [len(high), len(low)) when low
\* is longer and empty otherwise, new_high_ids is [len(low), len(high)) when
\* high is longer and empty otherwise, at most one of the two is not empty,
\* and is_empty holds exactly when the lists are equal.
C26_ListDiffOfCommonPrefix ==
    list_pc = "done" =>
        /\ Ascending(change_diff.diff_ids)
        /\ Range(change_diff.diff_ids) =
               {i \in 0..(CommonLen - 1) : low_list[i + 1] # high_list[i + 1]}
        /\ Ascending(change_diff.new_low_ids)
        /\ Range(change_diff.new_low_ids) =
               {i \in 0..(Len(low_list) - 1) : i >= Len(high_list)}
        /\ Ascending(change_diff.new_high_ids)
        /\ Range(change_diff.new_high_ids) =
               {i \in 0..(Len(high_list) - 1) : i >= Len(low_list)}
        /\ change_diff.new_low_ids = <<>> \/ change_diff.new_high_ids = <<>>
        /\ is_empty(change_diff) <=> low_list = high_list

\* from_lists was given a longer low list that also differs in the prefix
C26_Witness ==
    /\ list_pc = "done"
    /\ Len(low_list) >= Len(high_list) + 2
    /\ change_diff.diff_ids # <<>>
    /\ Len(change_diff.new_low_ids) >= 2


\* ---------------------------------------------------- claims on coverage

\* the identities listed by the batches, and those of NodeDiff.diffs
BatchedIds == UNION {Range(BatchIds(hierarchies[b])) : b \in 1..Len(hierarchies)}
DiffIdsOfNode == {object_id(d) : d \in Range(Diffs(hierarchies))}

\* C27: every key of obj_uid_to_diff is in at least one batch returned by
\* NodeDiff.hierarchies, and so in NodeDiff.diffs, for every dependency map
\* with edges inside obj_uid_to_diff, cycles included.
C27_EveryDiffBatched ==
    phase = "done" =>
        /\ DOMAIN obj_uid_to_diff \subseteq BatchedIds
        /\ DOMAIN obj_uid_to_diff \subseteq DiffIdsOfNode


\* out holds every element of in as often as in does, and nothing else
IsPermutation(out, in) ==
    /\ Len(out) = Len(in)
    /\ \A b \in Range(in) \cup Range(out) : Count(out, b) = Count(in, b)

\* C28: _sort_hierarchies returns a permutation of the list it was given,
\* also when two or more batches hold the same UserCode identity.
C28_SortReturnsPermutation ==
    phase = "sorted" =>
        /\ sort_error = "none"
        /\ IsPermutation(sorted_hierarchies, hierarchies)


\* ---------------------------------------------- claims on the frame of
\* add_cruds_from_diff

\* after holds the lists of before, but for at most one entity appended to at
\* most one of the three lists
AddsAtMostOne(before, after) ==
    \/ after = before
    \/ \E k \in 1..3 :
           /\ Len(after[k]) = Len(before[k]) + 1
           /\ SubSeq(after[k], 1, Len(before[k])) = before[k]
           /\ \A j \in (1..3) \ {k} : after[j] = before[j]

\* C29: for a decision "low" or "high", a call of add_cruds_from_diff leaves
\* create_objs, update_objs and delete_objs of the state whose alias is the
\* decision as they are, and appends at most one entity to at most one of the
\* three lists of the other state.
C29_OnlyOtherStateChanges ==
    [][(decision \in {"low", "high"} /\ pos' = pos + 1) =>
          /\ decision = "low" =>
                 /\ Cruds(resolved_state_low') = Cruds(resolved_state_low)
                 /\ AddsAtMostOne(Cruds(resolved_state_high),
                                  Cruds(resolved_state_high'))
          /\ decision = "high" =>
                 /\ Cruds(resolved_state_high') = Cruds(resolved_state_high)
                 /\ AddsAtMostOne(Cruds(resolved_state_low),
                                  Cruds(resolved_state_low'))]_vars

\* with decision "low" the high state received an entity and the low state
\* received none
C29_Witness ==
    /\ decision = "low"
    /\ rpc = "pass1"
    /\ pos >= 2
    /\ SumLen(Cruds(resolved_state_high), 1..3) >= 2
    /\ SumLen(Cruds(resolved_state_low), 1..3) = 0


\* ------------------------------------------------ claims on the queue

\* the MonitorThread was started
MonitorStarted == monitor_pc # "none"

\* the MonitorThread was asked to stop or runs no more
MonitorStopped == stop_requested \/ monitor_pc \in {"finished", "terminated", "died"}

\* the item is resolved with a final status
IsFinal(item) ==
    /\ item.resolved
    /\ item.status \in {"COMPLETED", "ERRORED", "INTERRUPTED"}

\* C30: whatever the called service method does (Ok result, error result,
\* result of an unknown type, exception), once handle_message_multiprocessing
\* has started the MonitorThread, the thread is eventually stopped and the job
\* and the queue item are eventually resolved with a final status.
C30_MonitorStoppedAndJobResolved ==
    MonitorStarted ~>
        (MonitorStopped /\ IsFinal(stash_job) /\ IsFinal(stash_queue_item))

====
